---- MODULE Spec2Model ----
(***************************************************************************)
(* A model of dbg.h: the dbg(...) / DERIVE_DEBUG(...) macros, the          *)
(* PrettyPrint overload family, the global indent, and the ArgNames        *)
(* splitter.                                                               *)
(*                                                                         *)
(* Text is a sequence of pieces.  Every literal the code writes is split   *)
(* into its characters ("{\n" is <<"{", "\n">>); only identifiers that the *)
(* code never inspects below the name level (type-name words, the call     *)
(* site's file, line and function) are one piece each.                     *)
(*                                                                         *)
(* An exception that leaves the header (std::out_of_range from             *)
(* std::string::substr) and a crash on a null dereference end the run:     *)
(* the header holds no handler, so pc becomes "terminated".                *)
(***************************************************************************)
EXTENDS Integers, Sequences, FiniteSets, TLC

VARIABLES
  out,             \* the text written to __dbg_internal::out so far
  indent,          \* __dbg_internal::indent
  dbg_was_called,  \* __dbg_internal::dbg_was_called
  dbg_enabled,     \* __dbg_internal::dbg_enabled
  args_,           \* ArgNames::args_ of the ArgNames object under test
  idx_,            \* ArgNames::idx_  of the ArgNames object under test
  pc,              \* "ready" | "terminated"
  popped,          \* history: the names pop() has returned, in order
  last,            \* history: what the last operation was and what it saw
  calls,           \* history: the PrettyPrint calls of the last dbg(...)
  mcalls,          \* history: the Multiplex... calls of the last dbg(...)
  blocks           \* history: what each enabled dbg(...) wrote, in order

vars == <<out, indent, dbg_was_called, dbg_enabled, args_, idx_, pc, popped,
          last, calls, mcalls, blocks>>

-----------------------------------------------------------------------------
(* Bounds of the model.                                                    *)

\* longest raw argument string enumerated exhaustively over Sigma
MaxRawLen == 3

\* most pop() calls on one ArgNames object
MaxPops == 5

\* most elements of a container
MaxElems == 2

\* most enabled dbg(...) invocations of one run
MaxCalls == 2

-----------------------------------------------------------------------------
(* Small helpers on sequences.                                             *)

Min(a, b) == IF a < b THEN a ELSE b

RECURSIVE SeqsUpTo(_, _)
\* every sequence over S of length at most n
SeqsUpTo(S, n) ==
  IF n = 0 THEN {<<>>}
  ELSE LET shorter == SeqsUpTo(S, n - 1)
       IN shorter \cup {Append(s, c) : s \in shorter, c \in S}

-----------------------------------------------------------------------------
(* ArgNames (dbg.h 628-673).  C++ indexes from 0, TLA+ from 1: args_[k] of *)
(* the code is args[k + 1] here; idx and end keep the code's values.       *)

\* isspace() in the "C" locale
IsSpace(c) == c \in {" ", "\t", "\n", "\r"}

\* std::string::substr(pos, count) for pos <= size(): the characters
\* [pos, min(pos + count, size())).  pos > size() throws std::out_of_range,
\* which Pop decides before it calls this.
Substr(args, pos, count) ==
  SubSeq(args, pos + 1, Min(pos + count, Len(args)))

RECURSIVE SkipSpaces(_, _)
\* for (; idx_ < args_.size() and isspace(args_[idx_]); ++idx_) {}
SkipSpaces(args, idx) ==
  IF idx < Len(args) /\ IsSpace(args[idx + 1])
  THEN SkipSpaces(args, idx + 1)
  ELSE idx

RECURSIVE ScanToComma(_, _)
\* for (; end < args_.size() and args_[end] != ','; ++end) {}
ScanToComma(args, end) ==
  IF end < Len(args) /\ args[end + 1] # ","
  THEN ScanToComma(args, end + 1)
  ELSE end

RECURSIVE ScanParensLoose(_, _, _)
\* a scan that stops at the first ')' whatever the nesting
ScanParensLoose(args, end, lvl) ==
  IF end < Len(args)
  THEN IF args[end + 1] = ")" THEN end
       ELSE ScanParensLoose(args, end + 1, lvl)
  ELSE end

RECURSIVE ScanParens(_, _, _)
\* for (; end < args_.size(); ++end) { '(' : ++lvl; ')' : --lvl;
\*                                    if (lvl == 0) break; }
ScanParens(args, end, lvl) ==
  IF end < Len(args)
  THEN LET c    == args[end + 1]
           lvl2 == IF c = "(" THEN lvl + 1
                   ELSE IF c = ")" THEN lvl - 1
                   ELSE lvl
       IN IF lvl2 = 0 THEN end ELSE ScanParens(args, end + 1, lvl2)
  ELSE end

RECURSIVE ScanToTopComma(_, _, _)
\* a scan that passes over the commas nested inside parentheses
ScanToTopComma(args, end, lvl) ==
  IF end < Len(args)
  THEN LET c == args[end + 1]
       IN IF c = "," /\ lvl <= 0 THEN end
          ELSE ScanToTopComma(args, end + 1,
                 IF c = "(" THEN lvl + 1
                 ELSE IF c = ")" THEN lvl - 1
                 ELSE lvl)
  ELSE end

\* a name scan of the else branch that honours parenthesis nesting
PlainEndNested(args, idx) == ScanToTopComma(args, idx + 1, 0)

\* int end = idx_ + 1; for (; end < size and args_[end] != ','; ++end) {}
PlainEnd(args, idx) == ScanToComma(args, idx + 1)

\* the result of a pop() that returns
Returned(name, idx) ==
  [name |-> name, idx |-> idx, threw |-> FALSE, oob |-> FALSE]

\* the result of a pop() that fails: oob is an out-of-range args_[idx_],
\* threw is std::out_of_range leaving pop()
Failed(idx, threw, oob) ==
  [name |-> <<>>, idx |-> idx, threw |-> threw, oob |-> oob]

\* ArgNames::pop() on an object with the fields args, idx0.  g is the
\* character an out-of-range args_[idx_] happens to read (undefined
\* behaviour: any character).
Pop(args, idx0, g) ==
  LET size == Len(args)
      idx  == SkipSpaces(args, idx0)
  IN IF idx = size THEN Returned(<<>>, idx)
     ELSE LET c == IF idx < size THEN args[idx + 1] ELSE g
          IN IF c = "("
             THEN \* substr(idx_ + 1, ...) throws when idx_ + 1 > size
                  IF idx + 1 > size THEN Failed(idx, TRUE, idx > size)
                  ELSE LET end == ScanParens(args, idx + 1, 1)
                       IN Returned(Substr(args, idx + 1, end - idx - 1),
                                   ScanToComma(args, end) + 1)
             ELSE \* substr(idx_, ...) throws when idx_ > size
                  IF idx > size THEN Failed(idx, TRUE, TRUE)
                  ELSE LET end == PlainEnd(args, idx)
                       IN Returned(Substr(args, idx, end - idx), end + 1)

-----------------------------------------------------------------------------
(* Values.  A value is a record                                            *)
(*   kind   the shape that selects the PrettyPrint overload                *)
(*   cat    "scalar" | "class": for a container or an owning pointer, the  *)
(*          category of its element type T (is_scalar<T> / is_class<T>)    *)
(*   tname  the demangled name typeid gives for it, in pieces              *)
(*   n      the number a scalar holds                                      *)
(*   str    the characters a std::string holds                             *)
(*   raw    for a class with DERIVE_DEBUG(...): the text #__VA_ARGS__      *)
(*   elems  the elements in the container's own order (a stack: bottom to  *)
(*          top), the fields of a class in DERIVE_DEBUG's order, the       *)
(*          pointee of a non-null pointer, the key and value of an entry   *)
(*   null   TRUE for the object a null pointer was dereferenced to         *)

Value(kind, cat, tname, n, str, raw, elems) ==
  [kind |-> kind, cat |-> cat, tname |-> tname, n |-> n, str |-> str,
   raw |-> raw, elems |-> elems, null |-> FALSE]

-----------------------------------------------------------------------------
(* Each function of the header is modelled as the sequence of statements   *)
(* it executes on its argument, in order, calls inlined:                   *)
(*   Out(s)      out << s                                                  *)
(*   OutIndent   out << indent                                             *)
(*   Inc, Dec    IncreaseIndent(); DecreaseIndent();                       *)
(*   Throw(e)    the exception e leaves the statement                      *)
(*   Crash       the process dies on a read through a null pointer         *)
(*   Enter(x), Leave     a PrettyPrint(x) call begins / returns            *)
(*   MEnter(raw, vals), MLeave   the same for MultiplexPrettyPrintOnVaArgs *)
(* Exec runs the statements against out and indent.                        *)

Out(s) == [op |-> "out", text |-> s]
OutIndent == [op |-> "indent"]
Inc == [op |-> "inc"]
Dec == [op |-> "dec"]
Throw(what) == [op |-> "throw", error |-> what]
Crash == [op |-> "crash"]
Enter(x) == [op |-> "enter", val |-> x]
Leave == [op |-> "leave"]
MEnter(raw, vals) == [op |-> "menter", raw |-> raw, vals |-> vals]
MLeave == [op |-> "mleave"]

\* the one element of a one-element set
Only(S) == CHOOSE y \in S : TRUE

IndentUnit == <<" ", " ">>

\* an IncreaseIndent that appends one space
IncreaseIndentByOne(ind) == ind \o <<" ">>

\* indent += "  ";
IncreaseIndent(ind) == ind \o IndentUnit

\* indent.resize(indent.size() - 2); Exec decides the case size() < 2, where
\* size() - 2 wraps around and resize throws std::length_error
DecreaseIndent(ind) == SubSeq(ind, 1, Len(ind) - 2)

Digits == <<"0", "1", "2", "3", "4", "5", "6", "7", "8", "9">>

RECURSIVE ToDec(_)
\* operator<<(int) for a number >= 0: its decimal digits
ToDec(n) ==
  IF n < 10 THEN <<Digits[n + 1]>>
  ELSE ToDec(n \div 10) \o <<Digits[(n % 10) + 1]>>

\* the pieces of name before its first '<', or all of name
BeforeTemplateArgs(name) ==
  LET lts == {i \in 1..Len(name) : name[i] = "<"}
  IN IF lts = {} THEN name
     ELSE SubSeq(name, 1, (CHOOSE i \in lts : \A j \in lts : i <= j) - 1)

\* what PrintTypeName(x) writes: the demangled name up to its first '<',
\* two libstdc++ spellings renamed
PrintTypeName(x) ==
  LET view == BeforeTemplateArgs(x.tname)
  IN IF view = <<"std::__cxx11::basic_string">> /\ view # x.tname
     THEN <<"std::string">>
     ELSE IF view = <<"std::__cxx11::list">> /\ view # x.tname
     THEN <<"std::list">>
     ELSE view

RECURSIVE Reverse(_)
Reverse(s) == IF s = <<>> THEN <<>> ELSE Append(Reverse(Tail(s)), Head(s))

\* the elements in the order the overload visits them: a std::stack is
\* drained from its top, everything else from front / begin()
Visited(x) == IF x.kind = "stack" THEN Reverse(x.elems) ELSE x.elems

\* the object *x of an owning pointer; for a null pointer the object at
\* address 0, whose reads are undefined behaviour
Deref(x) ==
  IF x.elems # <<>> THEN x.elems[1]
  ELSE LET nullInt == [Value("scalar", "scalar", <<"int">>, 0, <<>>, <<>>, <<>>)
                         EXCEPT !.null = TRUE]
       IN IF x.cat = "scalar" THEN nullInt
          ELSE [Value("class", "class", <<"Foo">>, 0, <<>>, <<"x">>, <<nullInt>>)
                  EXCEPT !.null = TRUE]

SeqKinds == {"array", "vector", "deque", "queue", "stack", "list", "set",
             "unordered_set"}
MapKinds == {"map", "unordered_map"}
PtrKinds == {"unique_ptr", "shared_ptr"}

\* an empty container written with a line break inside the braces
EmptyBracesBroken == <<"{", "\n", "}">>

\* out << "{}";
EmptyBraces == <<"{", "}">>

\* out << indent << "[" << i << "] = ";  the std::unordered_set overload
\* has no such statement
ElemPrefix(kind, i) ==
  IF kind = "unordered_set" THEN <<>>
  ELSE <<OutIndent, Out(<<"[">> \o ToDec(i) \o <<"]", " ", "=", " ">>)>>

\* a separator that ends the line after every element
ElemSeparatorNewline == <<",", "\n">>

\* out << ", ";
ElemSeparator == <<",", " ">>

\* names.pop() as MultiplexPrettyPrintOnNamedArgs calls it
NamesPop(args, idx, g) == Pop(args, idx, g)

RECURSIVE PrettyPrint(_, _)
RECURSIVE PrintScalarRest(_, _, _)
RECURSIVE PrintClassLines(_, _, _, _)
RECURSIVE PrintMapLines(_, _, _)
RECURSIVE MultiplexPrettyPrintOnNamedArgs(_, _, _, _)

\* for (int i = 1; i < x.size(); ++i) { out << ", "; PrettyPrint(x[i]); }
PrintScalarRest(xs, i, ub) ==
  IF i >= Len(xs) THEN <<>>
  ELSE <<Out(ElemSeparator)>> \o PrettyPrint(xs[i + 1], ub)
         \o PrintScalarRest(xs, i + 1, ub)

\* PrettyPrint of a container of scalars (array, vector, deque, queue,
\* stack, list, set, unordered_set): xs are the elements as visited
PrintScalarElems(xs, ub) ==
  <<Out(<<"{">>)>>
    \o (IF xs # <<>> THEN PrettyPrint(xs[1], ub) ELSE <<>>)
    \o PrintScalarRest(xs, 1, ub)
    \o <<Out(<<"}">>)>>

\* for (int i = 0; i < x.size(); ++i) {
\*   out << indent << "[" << i << "] = "; PrettyPrint(x[i]); out << "\n"; }
PrintClassLines(kind, xs, i, ub) ==
  IF i >= Len(xs) THEN <<>>
  ELSE ElemPrefix(kind, i) \o PrettyPrint(xs[i + 1], ub) \o <<Out(<<"\n">>)>>
         \o PrintClassLines(kind, xs, i + 1, ub)

\* PrettyPrint of a container of class objects (array, vector, deque,
\* queue, stack, list, set, unordered_set): xs are the elements as visited
PrintClassElems(kind, xs, ub) ==
  IF xs = <<>> THEN <<Out(EmptyBraces)>>
  ELSE <<Out(<<"{", "\n">>), Inc, OutIndent, Out(<<"<">>),
         Out(PrintTypeName(xs[1])), Out(<<">", "\n">>)>>
         \o PrintClassLines(kind, xs, 0, ub)
         \o <<Dec, OutIndent, Out(<<"}">>)>>

\* for (; it != end; ++it) { out << indent << "["; PrettyPrint(it->first);
\*   out << "] = "; PrettyPrint(it->second); out << "\n"; }
PrintMapLines(xs, i, ub) ==
  IF i > Len(xs) THEN <<>>
  ELSE <<OutIndent, Out(<<"[">>)>> \o PrettyPrint(xs[i].elems[1], ub)
         \o <<Out(<<"]", " ", "=", " ">>)>> \o PrettyPrint(xs[i].elems[2], ub)
         \o <<Out(<<"\n">>)>> \o PrintMapLines(xs, i + 1, ub)

\* PrettyPrint(const std::map<K, V> &) and (const std::unordered_map<K, V> &)
PrintMap(xs, ub) ==
  IF xs = <<>> THEN <<Out(EmptyBraces)>>
  ELSE <<Out(<<"{", "\n">>), Inc, OutIndent, Out(<<"<">>),
         Out(PrintTypeName(xs[1].elems[1])), Out(<<" ", "-", ">", " ">>),
         Out(PrintTypeName(xs[1].elems[2])), Out(<<">", "\n">>)>>
         \o PrintMapLines(xs, 1, ub)
         \o <<Dec, OutIndent, Out(<<"}">>)>>

\* PrettyPrint(const std::unique_ptr<T> &) and (const std::shared_ptr<T> &)
\* for a scalar T: no null test before *x
PrintScalarPtr(x, ub) ==
  <<Out(<<"{">>)>> \o PrettyPrint(Deref(x), ub) \o <<Out(<<"}">>)>>

\* PrettyPrint(const std::unique_ptr<T> &) and (const std::shared_ptr<T> &)
\* for a class T: no null test before *x; the unique_ptr header opens
\* with "< -> ", the shared_ptr header with "<"
PrintClassPtr(x, ub) ==
  <<Inc, Out(<<"{", "\n">>), OutIndent,
    Out(IF x.kind = "unique_ptr" THEN <<"<", " ", "-", ">", " ">> ELSE <<"<">>),
    Out(PrintTypeName(Deref(x))), Out(<<">", "\n">>), OutIndent>>
    \o PrettyPrint(Deref(x), ub)
    \o <<Dec, Out(<<"\n">>), OutIndent, Out(<<"}">>)>>

\* out << indent << names.pop() << ": "; PrintTypeName(first); out << " = ";
\* PrettyPrint(first); out << "\n"; then the same for the rest of the
\* arguments.  args, idx are the fields of the ArgNames object.
MultiplexPrettyPrintOnNamedArgs(args, idx, vals, ub) ==
  Only({ IF r.threw THEN <<OutIndent, Throw("std::out_of_range")>>
         ELSE <<OutIndent, Out(r.name), Out(<<":", " ">>),
                Out(PrintTypeName(vals[1])), Out(<<" ", "=", " ">>)>>
                \o PrettyPrint(vals[1], ub) \o <<Out(<<"\n">>)>>
                \o (IF Len(vals) = 1 THEN <<>>
                    ELSE MultiplexPrettyPrintOnNamedArgs(args, r.idx, Tail(vals), ub))
         : r \in {NamesPop(args, idx, ub.g)} })

\* ArgNames arg_names(names); MultiplexPrettyPrintOnNamedArgs(arg_names, args...)
MultiplexPrettyPrintOnVaArgs(names, vals, ub) ==
  <<MEnter(names, vals)>> \o MultiplexPrettyPrintOnNamedArgs(names, 0, vals, ub)
    \o <<MLeave>>

\* the PrettyPrint() method DERIVE_DEBUG(...) generates.  The field
\* expressions are bound by reference, so an object behind a null pointer
\* is read only when a field is printed.
DerivedPrettyPrint(x, ub) ==
  <<Out(<<"{", "\n">>), Inc>>
    \o MultiplexPrettyPrintOnVaArgs(x.raw, x.elems, ub)
    \o <<Dec, OutIndent, Out(<<"}">>)>>

\* the overload that overload resolution selects for x
PrettyPrintBody(x, ub) ==
  CASE x.kind = "scalar" ->
         \* out << x; reading an int through a null pointer crashes or
         \* yields whatever is there
         IF x.null
         THEN IF ub.crash THEN <<Crash>> ELSE <<Out(ToDec(ub.n))>>
         ELSE <<Out(ToDec(x.n))>>
    [] x.kind = "class" -> DerivedPrettyPrint(x, ub)
    [] x.kind = "ref" -> PrettyPrint(x.elems[1], ub)
    [] x.kind = "string" -> <<Out(<<"\"">> \o x.str \o <<"\"">>)>>
    [] x.kind \in SeqKinds /\ x.cat = "scalar" -> PrintScalarElems(Visited(x), ub)
    [] x.kind \in SeqKinds /\ x.cat = "class" ->
         PrintClassElems(x.kind, Visited(x), ub)
    [] x.kind \in MapKinds -> PrintMap(x.elems, ub)
    [] x.kind \in PtrKinds /\ x.cat = "scalar" -> PrintScalarPtr(x, ub)
    [] x.kind \in PtrKinds /\ x.cat = "class" -> PrintClassPtr(x, ub)

\* one PrettyPrint(x) call
PrettyPrint(x, ub) == <<Enter(x)>> \o PrettyPrintBody(x, ub) \o <<Leave>>

-----------------------------------------------------------------------------
(* Running statements.  The run state is                                   *)
(*   out, indent   what the statements have written, and the global indent *)
(*   status        "ok" | "threw" | "crashed": after an exception or a     *)
(*                 crash no further statement runs                         *)
(*   error         the exception thrown, if any                            *)
(*   incs, decs    how often IncreaseIndent / DecreaseIndent have run      *)
(*   open          the calls entered and not yet returned                  *)
(*   log, mlog     history: an entry for every PrettyPrint /               *)
(*                 MultiplexPrettyPrintOnVaArgs call that has returned     *)

\* the run state at the start of an invocation
RunState(ind) ==
  [out |-> <<>>, indent |-> ind, status |-> "ok", error |-> "", incs |-> 0,
   decs |-> 0,
   open |-> <<>>, log |-> <<>>, mlog |-> <<>>]

\* a call is entered: remember what it found
Opened(st, call) ==
  [st EXCEPT !.open = Append(@, [call |-> call, pre |-> st.indent,
                                  from |-> Len(st.out),
                                  incs |-> st.incs, decs |-> st.decs])]

\* the history entry of the innermost open call, as it returns
Returning(st) ==
  LET f == st.open[Len(st.open)]
  IN [val |-> f.call, pre |-> f.pre, post |-> st.indent,
      text |-> SubSeq(st.out, f.from + 1, Len(st.out)),
      incs |-> st.incs - f.incs, decs |-> st.decs - f.decs]

\* one statement
Step(ins, st) ==
  IF st.status # "ok" THEN st
  ELSE CASE ins.op = "out" -> [st EXCEPT !.out = @ \o ins.text]
         [] ins.op = "indent" -> [st EXCEPT !.out = @ \o st.indent]
         [] ins.op = "inc" ->
              [st EXCEPT !.indent = IncreaseIndent(@), !.incs = @ + 1]
         [] ins.op = "dec" ->
              IF Len(st.indent) >= 2
              THEN [st EXCEPT !.indent = DecreaseIndent(@), !.decs = @ + 1]
              ELSE [st EXCEPT !.status = "threw", !.error = "std::length_error",
                              !.decs = @ + 1]
         [] ins.op = "throw" -> [st EXCEPT !.status = "threw", !.error = ins.error]
         [] ins.op = "crash" -> [st EXCEPT !.status = "crashed"]
         [] ins.op = "enter" -> Opened(st, ins.val)
         [] ins.op = "menter" -> Opened(st, [raw |-> ins.raw, vals |-> ins.vals])
         [] ins.op = "leave" ->
              [st EXCEPT !.log = Append(@, Returning(st)),
                         !.open = SubSeq(@, 1, Len(@) - 1)]
         [] ins.op = "mleave" ->
              [st EXCEPT !.mlog = Append(@, Returning(st)),
                         !.open = SubSeq(@, 1, Len(@) - 1)]

RECURSIVE Exec(_, _, _, _)
\* the statements prog[lo], ..., prog[hi] run in order from the state st
\* (the first half, then the second half from where the first one ended)
Exec(prog, lo, hi, st) ==
  IF lo > hi THEN st
  ELSE IF lo = hi THEN Step(prog[lo], st)
  ELSE Only({Exec(prog, ((lo + hi) \div 2) + 1, hi, s) :
               s \in {Exec(prog, lo, (lo + hi) \div 2, st)}})

-----------------------------------------------------------------------------
(* Raw argument strings.                                                   *)

\* the characters raw strings are enumerated over
Sigma == {"a", ",", " ", "(", ")"}

\* what an out-of-range read of args_ may yield: '(' or anything else
GarbageChars == {"(", "?"}

\* "a, b + c, (Foo(x, y))", the example of the file header
HeaderExample ==
  <<"a", ",", " ", "b", " ", "+", " ", "c", ",", " ",
    "(", "F", "o", "o", "(", "x", ",", " ", "y", ")", ")">>

\* "f(a, b), c": a call that is not wrapped
UnwrappedCall == <<"f", "(", "a", ",", " ", "b", ")", ",", " ", "c">>

\* arguments that are plain expressions: no comma, no leading parenthesis
PlainArgs == { <<"a">>, <<"b", " ", "+", " ", "c">>, <<"f", "(", "x", ")">> }

\* the texts of call expressions: balanced parentheses, commas inside
CallTexts ==
  { <<"F", "(", "x", ",", " ", "y", ")">>,
    <<"g", "(", "h", "(", "x", ",", "y", ")", ",", "z", ")">>,
    <<"m", "(", ")">> }

\* an argument as the caller writes it: plain, or a call in one extra pair
\* of parentheses
Written(arg) == IF arg.wrapped THEN <<"(">> \o arg.text \o <<")">> ELSE arg.text

\* the arguments of the family of claim C2
FamilyArgs ==
  [wrapped : {FALSE}, text : PlainArgs] \cup [wrapped : {TRUE}, text : CallTexts]

\* argument lists of one or two arguments of the family
FamilyLists == {<<x>> : x \in FamilyArgs} \cup (FamilyArgs \X FamilyArgs)

RECURSIVE JoinArgs(_)
\* the raw string of an argument list: the arguments separated by ", "
JoinArgs(l) ==
  IF l = <<>> THEN <<>>
  ELSE IF Len(l) = 1 THEN Written(l[1])
  ELSE Written(l[1]) \o <<",", " ">> \o JoinArgs(Tail(l))

\* every raw string an ArgNames object is constructed from
RawStrings ==
  SeqsUpTo(Sigma, MaxRawLen)
    \cup {JoinArgs(l) : l \in FamilyLists}
    \cup {HeaderExample, UnwrappedCall}

-----------------------------------------------------------------------------
(* The values and the dbg(...) call sites of the model.                    *)

\* an int
IntVal(n) == Value("scalar", "scalar", <<"int">>, n, <<>>, <<>>, <<>>)

\* a std::string
Str(s) ==
  Value("string", "class", <<"std::__cxx11::basic_string", "<", "char", ">">>,
        0, s, <<>>, <<>>)

\* struct Foo { int x; DERIVE_DEBUG(x) };
Foo(n) == Value("class", "class", <<"Foo">>, 0, <<>>, <<"x">>, <<IntVal(n)>>)

\* the name typeid gives a standard template, before its '<'
TemplateName(kind) ==
  CASE kind = "list" -> "std::__cxx11::list"
    [] kind = "array" -> "std::array"
    [] kind = "vector" -> "std::vector"
    [] kind = "deque" -> "std::deque"
    [] kind = "queue" -> "std::queue"
    [] kind = "stack" -> "std::stack"
    [] kind = "set" -> "std::set"
    [] kind = "unordered_set" -> "std::unordered_set"
    [] kind = "map" -> "std::map"
    [] kind = "unordered_map" -> "std::unordered_map"
    [] kind = "unique_ptr" -> "std::unique_ptr"
    [] kind = "shared_ptr" -> "std::shared_ptr"
    [] kind = "ref" -> "std::reference_wrapper"
    [] kind = "pair" -> "std::pair"

\* a container, pointer, reference wrapper or map entry of the given kind
Of(kind, cat, elems) ==
  Value(kind, cat, <<TemplateName(kind), "<", "T", ">">>, 0, <<>>, <<>>, elems)

\* the i-th scalar and the i-th class object put into the containers;
\* the scalars ascend, as a std::set keeps them
ScalarElem(i) == IntVal(7 * i - 4)
ClassElem(i) == Foo(i + 8)

\* a container of the given kind with n elements of the given category;
\* an unordered_set hands them out in an order of its own
Filled(kind, cat, n) ==
  LET xs == [i \in 1..n |-> IF cat = "scalar" THEN ScalarElem(i) ELSE ClassElem(i)]
  IN Of(kind, cat, IF kind = "unordered_set" THEN Reverse(xs) ELSE xs)

\* the container kinds in the order the call sites pass them
SeqKindList == <<"array", "vector", "deque", "queue", "stack", "list", "set",
                 "unordered_set">>

Letters == <<"a", "b", "c", "d", "e", "f", "g", "h">>

\* "a, b, c, ...": the text #__VA_ARGS__ of n one-letter arguments
LetterArgs(n) == JoinArgs([i \in 1..n |-> [wrapped |-> FALSE, text |-> <<Letters[i]>>]])

\* struct Bar { std::vector<Foo> v; std::string s; int a, b; int Method(int, int);
\*              DERIVE_DEBUG(v, s, (Method(a, b))) };
Bar(n) ==
  Value("class", "class", <<"Bar">>, 0, <<>>,
        <<"v", ",", " ", "s", ",", " ",
          "(", "M", "e", "t", "h", "o", "d", "(", "a", ",", " ", "b", ")", ")">>,
        <<Filled("vector", "class", n), Str(<<"h", "i">>), IntVal(n)>>)

\* "(c - '('), x": two arguments, the first one wrapped and holding a
\* parenthesis inside a character literal
QuotedParen ==
  <<"(", "c", " ", "-", " ", "'", "(", "'", ")", ",", " ", "x">>

\* struct Odd { int c; int x; DERIVE_DEBUG((c - '('), x) };
Odd == Value("class", "class", <<"Odd">>, 0, <<>>, QuotedParen, <<IntVal(1), IntVal(2)>>)

\* an entry of a map
Entry(k, v) == Of("pair", "class", <<k, v>>)

\* the dbg(...) invocations of the model: the text #__VA_ARGS__ and the
\* values __VA_ARGS__, with __LINE__
CallSites ==
  { [line |-> 10 + n, raw |-> LetterArgs(8),
     vals |-> [i \in 1..8 |-> Filled(SeqKindList[i], "scalar", n)]] : n \in 0..MaxElems }
  \cup
  { [line |-> 20 + n, raw |-> LetterArgs(8),
     vals |-> [i \in 1..8 |-> Filled(SeqKindList[i], "class", n)]] : n \in 0..MaxElems }
  \cup
  { [line |-> 30, raw |-> LetterArgs(4),
     vals |-> << Of("map", "scalar", <<>>),
                 Of("map", "scalar", <<Entry(IntVal(1), Str(<<"a">>))>>),
                 Of("unordered_map", "class", <<Entry(Str(<<"k">>), Foo(2)),
                                                Entry(Str(<<"j">>), Foo(3))>>),
                 Of("unordered_map", "scalar", <<>>) >>],
    [line |-> 40, raw |-> LetterArgs(4),
     vals |-> << Of("unique_ptr", "scalar", <<IntVal(5)>>),
                 Of("shared_ptr", "scalar", <<IntVal(6)>>),
                 Of("unique_ptr", "class", <<Foo(7)>>),
                 Of("shared_ptr", "class", <<Foo(7)>>) >>],
    [line |-> 50, raw |-> LetterArgs(1), vals |-> <<Of("unique_ptr", "scalar", <<>>)>>],
    [line |-> 51, raw |-> LetterArgs(1), vals |-> <<Of("unique_ptr", "class", <<>>)>>],
    [line |-> 52, raw |-> LetterArgs(2),
     vals |-> <<Of("shared_ptr", "scalar", <<>>), Of("shared_ptr", "class", <<>>)>>],
    [line |-> 60, raw |-> LetterArgs(5),
     vals |-> << Of("vector", "class", <<Bar(0), Bar(1)>>),
                 Of("ref", "class", <<Foo(1)>>),
                 Of("list", "class", <<Str(<<"s">>)>>),
                 Of("deque", "class", <<Of("vector", "scalar", <<IntVal(1), IntVal(2)>>),
                                        Of("vector", "scalar", <<>>),
                                        Of("vector", "scalar", <<IntVal(7)>>)>>),
                 Of("map", "class", <<>>) >>],
    [line |-> 70, raw |-> HeaderExample, vals |-> <<IntVal(1), IntVal(5), IntVal(120)>>],
    [line |-> 71, raw |-> <<"x", ",", " ", "y">>, vals |-> <<IntVal(5), Str(<<"h", "i">>)>>],
    [line |-> 72, raw |-> UnwrappedCall, vals |-> <<IntVal(3), IntVal(4)>>],
    [line |-> 80, raw |-> QuotedParen, vals |-> <<IntVal(0), IntVal(9)>>],
    [line |-> 81, raw |-> LetterArgs(1), vals |-> <<Of("vector", "class", <<Odd>>)>>] }

\* what the undefined behaviour of one invocation turns out to be: whether
\* a read through a null pointer crashes, the number it yields when it
\* does not, and the character an out-of-range args_[idx_] yields
UBOutcomes ==
  { [crash |-> TRUE, n |-> 0, g |-> "("],
    [crash |-> FALSE, n |-> 0, g |-> "?"],
    [crash |-> FALSE, n |-> 4711, g |-> "("] }

-----------------------------------------------------------------------------
(* The dbg(...) macro and the two switches.                                *)

\* std::setfill('0') << std::setw(2) << n
Pad2(n) == IF n < 10 THEN <<"0">> \o ToDec(n) ELSE ToDec(n)

\* the std::tm that std::localtime returns during the run
Now == [tm_mday |-> 1, tm_mon |-> 10, tm_year |-> 126,
        tm_hour |-> 7, tm_min |-> 9, tm_sec |-> 30]

\* what PrintCurrTime() writes: dd.mm.yy HH:MM:SS
PrintCurrTime ==
  Pad2(Now.tm_mday) \o <<".">> \o Pad2(Now.tm_mon + 1) \o <<".">>
    \o Pad2(Now.tm_year % 100) \o <<" ">> \o Pad2(Now.tm_hour) \o <<":">>
    \o Pad2(Now.tm_min) \o <<":">> \o Pad2(Now.tm_sec)

\* a separator written before every block
SeparatorAlways(was_called) == <<"\n">>

\* if (dbg_was_called) out << "\n";
Separator(was_called) == IF was_called THEN <<"\n">> ELSE <<>>

\* the statements of an enabled dbg(...) after the separator: the header
\* line, then MultiplexPrettyPrintOnVaArgs(#__VA_ARGS__, __VA_ARGS__)
DbgBody(site, ub) ==
  <<Out(<<"[", "main.cpp", ":">> \o ToDec(site.line) \o <<" ", "(", "main", ")", " ">>),
    Out(PrintCurrTime), Out(<<"]", "\n">>)>>
    \o MultiplexPrettyPrintOnVaArgs(site.raw, site.vals, ub)

\* the run of an enabled dbg(...) at site, entered with the indent ind
DbgBlock(site, ind, ub) ==
  Only({Exec(prog, 1, Len(prog), s) : prog \in {DbgBody(site, ub)}, s \in {RunState(ind)}})

NoCall == [op |-> "none"]

Init ==
  /\ out = <<>>
  /\ indent = <<>>
  /\ dbg_was_called = FALSE
  /\ dbg_enabled = TRUE
  /\ args_ = <<>>
  /\ idx_ = 0
  /\ pc = "ready"
  /\ popped = <<>>
  /\ last = NoCall
  /\ calls = <<>>
  /\ mcalls = <<>>
  /\ blocks = <<>>

\* no call site: a disabled dbg(...) does not evaluate its arguments
NoSite == [line |-> 0, raw |-> <<>>, vals |-> <<>>]

\* dbg(...) at a call site
Dbg ==
  /\ pc = "ready"
  /\ IF dbg_enabled
     THEN /\ Len(blocks) < MaxCalls
          /\ \E site \in CallSites, ub \in UBOutcomes :
             \E r \in {DbgBlock(site, indent, ub)} :
               /\ out' = out \o Separator(dbg_was_called) \o r.out
               /\ dbg_was_called' = TRUE
               /\ indent' = r.indent
               /\ pc' = IF r.status = "ok" THEN "ready" ELSE "terminated"
               /\ calls' = r.log
               /\ mcalls' = r.mlog
               /\ blocks' = Append(blocks, r.out)
               /\ last' = [op |-> "dbg", enabled |-> TRUE, site |-> site,
                           out0 |-> out, indent0 |-> indent,
                           was0 |-> dbg_was_called, status |-> r.status,
                           error |-> r.error]
     ELSE /\ last' = [op |-> "dbg", enabled |-> FALSE, site |-> NoSite,
                      out0 |-> out, indent0 |-> indent,
                      was0 |-> dbg_was_called, status |-> "ok", error |-> ""]
          /\ calls' = <<>>
          /\ mcalls' = <<>>
          /\ UNCHANGED <<out, dbg_was_called, indent, pc, blocks>>
  /\ UNCHANGED <<dbg_enabled, args_, idx_, popped>>

\* DISABLE_DEBUG
DisableDebug ==
  /\ pc = "ready"
  /\ dbg_enabled' = FALSE
  /\ last' = [op |-> "disable"]
  /\ UNCHANGED <<out, indent, dbg_was_called, args_, idx_, pc, popped, calls,
                 mcalls, blocks>>

\* ENABLE_DEBUG
EnableDebug ==
  /\ pc = "ready"
  /\ dbg_enabled' = TRUE
  /\ last' = [op |-> "enable"]
  /\ UNCHANGED <<out, indent, dbg_was_called, args_, idx_, pc, popped, calls,
                 mcalls, blocks>>

Next == Dbg \/ DisableDebug \/ EnableDebug

Spec == Init /\ [][Next]_vars

-----------------------------------------------------------------------------
(* The ArgNames object under test.                                         *)

NoOp == [op |-> "none", idx |-> 0, name |-> <<>>, threw |-> FALSE, oob |-> FALSE]

InitArgNames ==
  /\ out = <<>>
  /\ indent = <<>>
  /\ dbg_was_called = FALSE
  /\ dbg_enabled = TRUE
  /\ args_ \in RawStrings         \* ArgNames(const char *args) : args_(args)
  /\ idx_ = 0                     \* int idx_ = 0
  /\ pc = "ready"
  /\ popped = <<>>
  /\ last = NoOp
  /\ calls = <<>>
  /\ mcalls = <<>>
  /\ blocks = <<>>

\* one call of pop() on the object
PopCall ==
  /\ pc = "ready"
  /\ Len(popped) < MaxPops
  /\ \E g \in GarbageChars :
       LET r == Pop(args_, idx_, g)
       IN /\ last' = [op |-> "pop", idx |-> idx_, name |-> r.name,
                      threw |-> r.threw, oob |-> r.oob]
          /\ IF r.threw
             THEN /\ pc' = "terminated"
                  /\ UNCHANGED <<idx_, popped>>
             ELSE /\ idx_' = r.idx
                  /\ popped' = Append(popped, r.name)
                  /\ pc' = pc
  /\ UNCHANGED <<out, indent, dbg_was_called, dbg_enabled, args_, calls,
                 mcalls, blocks>>

NextArgNames == PopCall

SpecArgNames == InitArgNames /\ [][NextArgNames]_vars

-----------------------------------------------------------------------------
(* Claims about dbg(...) and PrettyPrint, checked under Spec.              *)

\* the last operation was an enabled dbg(...)
DbgRan == last.op = "dbg" /\ last.enabled

\* what PrettyPrint(x) writes when entered with the indent ind
Rendered(x, ind, ub) ==
  Only({Exec(prog, 1, Len(prog), s) : prog \in {PrettyPrint(x, ub)},
                                      s \in {RunState(ind)}}).out

\* C1: when a PrettyPrint call (a DERIVE_DEBUG-generated PrettyPrint()
\* included) or a whole dbg(...) returns, indent is what it was before the
\* call; indent is empty at the start and at the end of every dbg(...).
C1_IndentRestored ==
  /\ \A i \in 1..Len(calls) : calls[i].post = calls[i].pre
  /\ (DbgRan /\ last.status = "ok") => indent = last.indent0
  /\ last.op = "dbg" => last.indent0 = <<>>
  /\ pc = "ready" => indent = <<>>

\* C1 witness: a second dbg(...) has returned in which an empty container
\* returned early at a nested indent and a class nested two levels deep
\* raised and lowered the indent
C1_Witness ==
  /\ DbgRan /\ last.status = "ok" /\ Len(blocks) = 2
  /\ \E i \in 1..Len(calls) :
       /\ calls[i].val.kind \in SeqKinds /\ calls[i].val.elems = <<>>
       /\ Len(calls[i].pre) >= 4
  /\ \E i \in 1..Len(calls) :
       /\ calls[i].val.kind = "class"
       /\ Len(calls[i].pre) >= 4 /\ calls[i].incs >= 1

RECURSIVE PoppedNames(_, _, _, _)
\* the results of n successive pop() calls on an ArgNames object, up to
\* the first one that throws
PoppedNames(args, idx, n, g) ==
  IF n = 0 THEN <<>>
  ELSE Only({ IF r.threw THEN <<r>>
              ELSE <<r>> \o PoppedNames(args, r.idx, n - 1, g)
              : r \in {Pop(args, idx, g)} })

RECURSIVE NamedLines(_, _, _, _, _)
\* the lines "<indent><name>: <type> = <rendering>\n" of the values
\* vals[i], vals[i + 1], ... under the names popped for them
NamedLines(names, vals, i, ind, ub) ==
  IF i > Len(vals) THEN <<>>
  ELSE ind \o names[i].name \o <<":", " ">> \o PrintTypeName(vals[i])
         \o <<" ", "=", " ">> \o Rendered(vals[i], ind, ub) \o <<"\n">>
         \o NamedLines(names, vals, i + 1, ind, ub)

\* the block of the last dbg(...) after its header line
LastBody ==
  LET block == blocks[Len(blocks)]
      head  == CHOOSE k \in 1..Len(block) :
                 block[k] = "\n" /\ \A j \in 1..(k - 1) : block[j] # "\n"
  IN SubSeq(block, head + 1, Len(block))

\* MultiplexPrettyPrintOnVaArgs emitted one line per value, each under the
\* name popped for it
EmittedNamedLines ==
  \E ub \in UBOutcomes :
  \E names \in {PoppedNames(last.site.raw, 0, Len(last.site.vals), ub.g)} :
     /\ Len(names) = Len(last.site.vals)
     /\ \A i \in 1..Len(names) : ~names[i].threw
     /\ LastBody = NamedLines(names, last.site.vals, 1, last.indent0, ub)

\* C4: given a raw name string and n >= 1 values that can be rendered,
\* MultiplexPrettyPrintOnVaArgs emits exactly n newline-terminated lines in
\* argument order, the i-th being the indent, the i-th name popped, ": ",
\* the type label, " = " and the rendering of the i-th value.
C4_OneLinePerValue ==
  (DbgRan /\ last.status # "crashed") => EmittedNamedLines

\* the same for the invocations that no exception left
C4_OneLinePerValueUnlessThrown ==
  (DbgRan /\ last.status = "ok") => EmittedNamedLines

RECURSIVE JoinBlocks(_)
\* the blocks with exactly one "\n" between consecutive ones
JoinBlocks(bs) ==
  IF bs = <<>> THEN <<>>
  ELSE IF Len(bs) = 1 THEN bs[1]
  ELSE bs[1] \o <<"\n">> \o JoinBlocks(Tail(bs))

\* C5: the sink holds exactly the blocks of the enabled invocations, in
\* order, one blank line between consecutive blocks and none before the
\* first; a disabled invocation writes nothing and leaves dbg_was_called
\* and indent as they were.
C5_BlocksSeparated ==
  /\ out = JoinBlocks(blocks)
  /\ \A i \in 1..Len(blocks) :
       /\ blocks[i] # <<>>
       /\ blocks[i][1] = "["
       /\ i < Len(blocks) =>
            /\ blocks[i][Len(blocks[i])] = "\n"
            /\ blocks[i][Len(blocks[i]) - 1] # "\n"
  /\ dbg_was_called = (blocks # <<>>)
  /\ (last.op = "dbg" /\ ~last.enabled) =>
       /\ out = last.out0
       /\ dbg_was_called = last.was0
       /\ indent = last.indent0

\* C5 witness: a dbg(...) made while disabled, after two blocks were
\* written
C5_Witness ==
  /\ last.op = "dbg" /\ ~last.enabled
  /\ Len(blocks) = 2
  /\ out = blocks[1] \o <<"\n">> \o blocks[2]

\* an entry of the history is the call on a container with no elements
EmptyComposite(e) ==
  e.val.kind \in SeqKinds \cup MapKinds /\ e.val.elems = <<>>

\* C6: a sequence, set, mapping or adapter with no elements is written as
\* exactly "{}" and neither IncreaseIndent nor DecreaseIndent runs,
\* whatever the category of its element type.
C6_EmptyIsBraces ==
  \A i \in 1..Len(calls) :
     EmptyComposite(calls[i]) =>
       /\ calls[i].text = <<"{", "}">>
       /\ calls[i].incs = 0
       /\ calls[i].decs = 0

\* C6 witness: the last dbg(...) rendered an empty container of scalars, an
\* empty container of class objects and an empty map
C6_Witness ==
  /\ DbgRan /\ last.status = "ok"
  /\ \E i, j, k \in 1..Len(calls) :
       /\ EmptyComposite(calls[i]) /\ calls[i].val.kind \in SeqKinds
       /\ calls[i].val.cat = "scalar"
       /\ EmptyComposite(calls[j]) /\ calls[j].val.kind \in SeqKinds
       /\ calls[j].val.cat = "class"
       /\ EmptyComposite(calls[k]) /\ calls[k].val.kind \in MapKinds

RECURSIVE CommaSeparated(_, _)
\* the numbers of the scalars xs[i], xs[i + 1], ... in decimal, ", "
\* between them
CommaSeparated(xs, i) ==
  IF i > Len(xs) THEN <<>>
  ELSE IF i = Len(xs) THEN ToDec(xs[i].n)
  ELSE ToDec(xs[i].n) \o <<",", " ">> \o CommaSeparated(xs, i + 1)

\* an entry of the history is the call on a sequence, set or adapter with
\* elements of the category cat
NonEmpty(e, cat) ==
  e.val.kind \in SeqKinds /\ e.val.elems # <<>> /\ e.val.cat = cat

\* C7: a non-empty sequence, set or adapter of scalars is written on one
\* line as "{e0, e1, ..., en}", and one of class objects in the multi-line
\* form with a type header, however many elements there are.
C7_FormFollowsElementShape ==
  \A i \in 1..Len(calls) :
     LET e == calls[i]
     IN /\ NonEmpty(e, "scalar") =>
             /\ e.text = <<"{">> \o CommaSeparated(Visited(e.val), 1) \o <<"}">>
             /\ \A k \in 1..Len(e.text) : e.text[k] # "\n"
        /\ NonEmpty(e, "class") =>
             LET header == <<"{", "\n">> \o e.pre \o IndentUnit \o <<"<">>
                             \o PrintTypeName(Visited(e.val)[1]) \o <<">", "\n">>
             IN /\ Len(e.text) > Len(header)
                /\ SubSeq(e.text, 1, Len(header)) = header

\* C7 witness: the last dbg(...) rendered a one-element and a longer
\* container of scalars and a one-element container of class objects
C7_Witness ==
  /\ DbgRan
  /\ \E i, j, k \in 1..Len(calls) :
       /\ NonEmpty(calls[i], "scalar") /\ Len(calls[i].val.elems) = 1
       /\ NonEmpty(calls[j], "scalar") /\ Len(calls[j].val.elems) >= 2
       /\ NonEmpty(calls[k], "class") /\ Len(calls[k].val.elems) = 1

\* the last dbg(...) was given a null std::unique_ptr
GivenNullUniquePtr ==
  /\ DbgRan
  /\ \E i \in 1..Len(last.site.vals) :
       /\ last.site.vals[i].kind = "unique_ptr"
       /\ last.site.vals[i].elems = <<>>

\* C8: PrettyPrint of a null std::unique_ptr fails with an explicit "null
\* dereference" error; it neither dereferences the pointer nor writes
\* garbage.
C8_NullUniquePtrReported ==
  GivenNullUniquePtr =>
    /\ last.status = "threw"
    /\ last.error = "null dereference"

RECURSIVE ElementLines(_, _, _, _, _)
\* the lines of the elements xs[i + 1], ... of a composite of class
\* objects: the indent, "[i] = " unless the container is an unordered set,
\* the rendering, a newline
ElementLines(kind, xs, i, ind, ub) ==
  IF i >= Len(xs) THEN <<>>
  ELSE ind \o (IF kind = "unordered_set" THEN <<>>
               ELSE <<"[">> \o ToDec(i) \o <<"]", " ", "=", " ">>)
         \o Rendered(xs[i + 1], ind, ub) \o <<"\n">>
         \o ElementLines(kind, xs, i + 1, ind, ub)

\* the text C9 gives for the entry e
AggregateForm(e, ub) ==
  <<"{", "\n">> \o e.pre \o IndentUnit \o <<"<">>
    \o PrintTypeName(Visited(e.val)[1]) \o <<">", "\n">>
    \o ElementLines(e.val.kind, Visited(e.val), 0, e.pre \o IndentUnit, ub)
    \o e.pre \o <<"}">>

\* C9: a non-empty composite of class objects entered at the indent I is
\* written as "{", a header line and one line per element, each starting
\* with I plus one unit (then "[index] = ", except for unordered sets),
\* and "}" preceded by I.
C9_ElementLinesIndented ==
  \A i \in 1..Len(calls) :
     NonEmpty(calls[i], "class") =>
       \E ub \in UBOutcomes : calls[i].text = AggregateForm(calls[i], ub)

\* the same for every kind but std::unordered_set
C9_ElementLinesIndentedButUnorderedSet ==
  \A i \in 1..Len(calls) :
     (NonEmpty(calls[i], "class") /\ calls[i].val.kind # "unordered_set") =>
       \E ub \in UBOutcomes : calls[i].text = AggregateForm(calls[i], ub)

\* an entry of the history is the call on a std::unique_ptr or
\* std::shared_ptr that holds an object of the category cat
NonNullPtr(e, cat) ==
  e.val.kind \in PtrKinds /\ e.val.elems # <<>> /\ e.val.cat = cat

\* the text C11 gives for a pointer to a class object: "{", the header line
\* "<PointeeTypeName>", the pointee on an indented line of its own, "}"
PointerForm(e, ub) ==
  <<"{", "\n">> \o e.pre \o IndentUnit \o <<"<">>
    \o PrintTypeName(e.val.elems[1]) \o <<">", "\n">>
    \o e.pre \o IndentUnit \o Rendered(e.val.elems[1], e.pre \o IndentUnit, ub)
    \o <<"\n">> \o e.pre \o <<"}">>

\* C11: a non-null std::unique_ptr or std::shared_ptr to a class object is
\* written as "{", a newline, the indented header line "<PointeeTypeName>",
\* the pointee on an indented line without an index, and "}" at the entry
\* indent, the same text for both kinds of pointer; a scalar pointee is
\* written as "{value}".
C11_PointerRendersAsAggregate ==
  \A i \in 1..Len(calls) :
     /\ NonNullPtr(calls[i], "class") =>
          \E ub \in UBOutcomes : calls[i].text = PointerForm(calls[i], ub)
     /\ NonNullPtr(calls[i], "scalar") =>
          calls[i].text = <<"{">> \o ToDec(calls[i].val.elems[1].n) \o <<"}">>

\* the same for every pointer but a std::unique_ptr to a class object
C11_PointerRendersAsAggregateButUnique ==
  \A i \in 1..Len(calls) :
     /\ (NonNullPtr(calls[i], "class") /\ calls[i].val.kind = "shared_ptr") =>
          \E ub \in UBOutcomes : calls[i].text = PointerForm(calls[i], ub)
     /\ NonNullPtr(calls[i], "scalar") =>
          calls[i].text = <<"{">> \o ToDec(calls[i].val.elems[1].n) \o <<"}">>

-----------------------------------------------------------------------------
(* Claims about ArgNames, checked under SpecArgNames.                      *)

\* the names the file header gives for HeaderExample
HeaderExampleNames ==
  << <<"a">>, <<"b", " ", "+", " ", "c">>,
     <<"F", "o", "o", "(", "x", ",", " ", "y", ")">> >>

\* C2: for a raw string whose arguments are plain expressions or calls
\* wrapped in one extra pair of parentheses, the successive pop() calls
\* return the arguments in order, a wrapped argument as the text strictly
\* between its outer parentheses; "a, b + c, (Foo(x, y))" yields
\* "a", "b + c", "Foo(x, y)".
C2_WrappedArgsSplit ==
  /\ \A l \in FamilyLists :
       args_ = JoinArgs(l) =>
         /\ \A i \in 1..Min(Len(popped), Len(l)) : popped[i] = l[i].text
         /\ (pc = "terminated" => Len(popped) >= Len(l))
  /\ args_ = HeaderExample =>
         /\ \A i \in 1..Min(Len(popped), 3) : popped[i] = HeaderExampleNames[i]
         /\ (pc = "terminated" => Len(popped) >= 3)

\* C2 witness: the third pop() on the header's example has returned
\* "Foo(x, y)"
C2_Witness ==
  /\ args_ = HeaderExample
  /\ Len(popped) = 3
  /\ last.op = "pop"
  /\ last.name = HeaderExampleNames[3]

\* nothing but whitespace is left at or after position idx of args
AllConsumed(args, idx) == \A k \in (idx + 1)..Len(args) : IsSpace(args[k])

\* C3: once all names have been consumed, every further pop() returns the
\* empty string and never fails (no exception, no out-of-range access).
C3_PopPastEndReturnsEmpty ==
  (last.op = "pop" /\ AllConsumed(args_, last.idx)) =>
    (~last.threw /\ ~last.oob /\ last.name = <<>>)

\* where the name of the last pop() began: the first non-whitespace
\* character at or after the idx_ it saw
NameStart == SkipSpaces(args_, last.idx)

\* the last pop() returned a name that began with a character other than '('
PoppedPlainName ==
  /\ last.op = "pop"
  /\ ~last.threw
  /\ NameStart < Len(args_)
  /\ args_[NameStart + 1] # "("

\* the position of the first comma after position s of args, whatever its
\* nesting, or the length of args when there is none
FirstCommaAfter(args, s) ==
  LET commas == {k \in (s + 1)..(Len(args) - 1) : args[k + 1] = ","}
  IN IF commas = {} THEN Len(args)
     ELSE CHOOSE k \in commas : \A j \in commas : k <= j

\* C10 as stated: a name that does not begin with '(' runs up to, and not
\* including, the next comma that is not nested inside parentheses.
C10_NameEndsAtTopLevelComma ==
  PoppedPlainName =>
    last.name = SubSeq(args_, NameStart + 1, ScanToTopComma(args_, NameStart + 1, 0))

\* C10 as amended: a name that does not begin with '(' runs from that
\* character up to, and not including, the first comma after it, nested
\* inside parentheses or not; idx_ is left just past that comma.
C10_NameEndsAtFirstComma ==
  PoppedPlainName =>
    /\ last.name = SubSeq(args_, NameStart + 1, FirstCommaAfter(args_, NameStart))
    /\ idx_ = FirstCommaAfter(args_, NameStart) + 1

\* C10 witness: the first pop() on "f(a, b), c" has returned "f(a"
C10_Witness ==
  /\ args_ = UnwrappedCall
  /\ last.op = "pop"
  /\ Len(popped) = 1
  /\ last.name = <<"f", "(", "a">>

====
